---- MODULE Spec2Model ----
(***************************************************************************)
(* Model of the monitor_status_lite plugin (plugin.py, image_generator.py). *)
(*                                                                         *)
(* Tasks run on one cooperative event loop: the background memory recorder  *)
(* and one command handler at a time.  A task keeps the loop ("running")    *)
(* from one await to the next; only at an await can the other task run.     *)
(*                                                                         *)
(* Units: memory values are whole megabytes, percentages are carried in     *)
(* tenths of a percent (60% is 60 * 10), means are kept as exact fractions. *)
(***************************************************************************)
EXTENDS Integers, Sequences, FiniteSets, TLC

VARIABLES
    MEMORY_HISTORY,   \* plugin.py:19 the module-level deque(maxlen=60)
    appended,         \* history variable: the last MEMORY_CAPACITY+1 values ever appended
    loaded,           \* on_plugin_loaded has run (the recorder task exists)
    recPc,            \* position of _memory_recorder
    running,          \* task that holds the event loop: "none", "recorder", "handler"
    profile,          \* the workload: successive resident-memory readings (MB)
    rssIdx,           \* index of the current reading in profile
    host,             \* current cpu_percent and virtual_memory().percent, in tenths
    plugins,          \* plugin registry: sequence of enable_plugin flags
    partitions,       \* psutil.disk_partitions(): sequence of partition records
    IMAGE_GENERATOR_AVAILABLE, \* plugin.py:31-36
    cmd,              \* command being handled, "none" when idle
    permitted,        \* the caller holds the "access" node
    pc,               \* position of the handler
    data,             \* StatusCommand: the snapshot dict; SysInfoCommand: the info lines
    img,              \* StatusCommand: result of generator.generate
    locals,           \* MemoryAnalysisCommand: current, avg, max_mem, min_mem, trend_str
    outbox,           \* messages handed to send_text / send_image by this invocation
    result,           \* value returned by the handler, NoResult while it runs
    queries,          \* history variable: the metric sources read by this invocation, in order
    seconds,          \* format_duration: argument
    duration,         \* format_duration: returned value
    disks,            \* get_disk_info: returned list
    percent,          \* progress bars: percentage argument
    drawn             \* progress bars: what was drawn last

vars == <<MEMORY_HISTORY, appended, loaded, recPc, running, profile, rssIdx, host,
          plugins, partitions, IMAGE_GENERATOR_AVAILABLE, cmd, permitted, pc,
          data, img, locals, outbox, result, queries, seconds, duration,
          disks, percent, drawn>>

bufVars == <<MEMORY_HISTORY, appended>>
recVars == <<loaded, recPc>>
envVars == <<profile, host, plugins, partitions, IMAGE_GENERATOR_AVAILABLE>>
cmdVars == <<cmd, permitted, pc, data, img, locals, outbox, result, queries>>
fmtVars == <<seconds, duration, disks>>
barVars == <<percent, drawn>>

----------------------------------------------------------------------------
(* Program constants *)

MEMORY_CAPACITY == 60

(* Bounds of the model *)

MaxSeedLen == 6
MaxDays == 1
MaxParts == 4
MaxShownParts == 6

----------------------------------------------------------------------------
(* Generic helpers *)

RECURSIVE SumSeq(_)
SumSeq(s) == IF s = <<>> THEN 0 ELSE Head(s) + SumSeq(Tail(s))

Range(s) == { s[i] : i \in 1..Len(s) }

\* max(...) and min(...) of a non-empty sequence
MaxSeq(s) == CHOOSE x \in Range(s) : \A y \in Range(s) : x >= y

MinSeq(s) == CHOOSE x \in Range(s) : \A y \in Range(s) : x <= y

Min2(a, b) == IF a <= b THEN a ELSE b

\* s[:n]
Prefix(s, n) == SubSeq(s, 1, Min2(n, Len(s)))

\* s[-n:]
Suffix_OffByOne(s, n) == SubSeq(s, Len(s) - Min2(n - 1, Len(s)) + 1, Len(s))

Suffix(s, n) == SubSeq(s, Len(s) - Min2(n, Len(s)) + 1, Len(s))

----------------------------------------------------------------------------
(* The Memory History Buffer *)

\* deque(maxlen=60).append: a full deque discards its left end
DequeAppend_KeepsOldest(h, v) ==
    IF Len(h) = MEMORY_CAPACITY THEN h ELSE Append(h, v)

DequeAppend(h, v) ==
    IF Len(h) = MEMORY_CAPACITY THEN Append(Tail(h), v) ELSE Append(h, v)

\* history variable: every appended value, cut to the last MEMORY_CAPACITY+1
Logged(log, v) ==
    IF Len(log) = MEMORY_CAPACITY + 1 THEN Append(Tail(log), v) ELSE Append(log, v)

\* process.memory_info().rss / 1024 / 1024
ReadRss == profile[rssIdx]

\* the process's memory moves on to the next reading of the workload
NextIdx == (rssIdx % Len(profile)) + 1

\* try: mem = ...; MEMORY_HISTORY.append(mem)
SampleAndAppend ==
    /\ MEMORY_HISTORY' = DequeAppend(MEMORY_HISTORY, ReadRss)
    /\ appended' = Logged(appended, ReadRss)
    /\ rssIdx' = NextIdx

----------------------------------------------------------------------------
(* Cooperative scheduling *)

\* the steps that end in an await: the task gives the event loop back there
Awaits_YieldAfterStats ==
    { <<"recorder", "sleep">>,
      <<"handler", "check">>, <<"handler", "deny">>,
      <<"mem", "send">>, <<"mem", "stats">>,
      <<"status", "send_image">>, <<"status", "send_notice">>, <<"status", "send_text">>,
      <<"sysinfo", "send">>, <<"mhelp", "send">> }

Awaits ==
    { <<"recorder", "sleep">>,
      <<"handler", "check">>, <<"handler", "deny">>,
      <<"mem", "send">>,
      <<"status", "send_image">>, <<"status", "send_notice">>, <<"status", "send_text">>,
      <<"sysinfo", "send">>, <<"mhelp", "send">> }

CanRun(task) == running \in {"none", task}

\* who holds the loop after `task` has executed the step `label` of `unit`
After(task, unit, label) == IF <<unit, label>> \in Awaits THEN "none" ELSE task

----------------------------------------------------------------------------
(* MonitorStatusLitePlugin: the background recorder *)

\* except Exception: pass -- the failed iteration goes on to the sleep
RecorderOnError_Propagates == "dead"

RecorderOnError == "sleep"

RecorderPcs == {"sample", "sleep", "sleeping"}

\* on_plugin_loaded: asyncio.create_task(self._memory_recorder())
OnPluginLoaded ==
    /\ ~loaded
    /\ running = "none"
    /\ loaded' = TRUE
    /\ recPc' = "sample"
    /\ UNCHANGED <<bufVars, running, rssIdx, envVars, cmdVars, fmtVars, barVars>>

\* the try block of one iteration: the query succeeds and the value is appended
RecorderSampleOk ==
    /\ recPc = "sample"
    /\ CanRun("recorder")
    /\ SampleAndAppend
    /\ recPc' = "sleep"
    /\ running' = After("recorder", "recorder", "sample")
    /\ UNCHANGED <<loaded, envVars, cmdVars, fmtVars, barVars>>

\* the try block of one iteration: psutil raises before the append
RecorderSampleFails ==
    /\ recPc = "sample"
    /\ CanRun("recorder")
    /\ recPc' = RecorderOnError
    /\ running' = After("recorder", "recorder", "sample")
    /\ UNCHANGED <<bufVars, loaded, rssIdx, envVars, cmdVars, fmtVars, barVars>>

\* await asyncio.sleep(60): the task suspends
RecorderSleep ==
    /\ recPc = "sleep"
    /\ CanRun("recorder")
    /\ recPc' = "sleeping"
    /\ running' = After("recorder", "recorder", "sleep")
    /\ UNCHANGED <<bufVars, loaded, rssIdx, envVars, cmdVars, fmtVars, barVars>>

\* the 60 second timer expires; `while True` starts the next iteration
RecorderWake ==
    /\ recPc = "sleeping"
    /\ running = "none"
    /\ recPc' = "sample"
    /\ UNCHANGED <<bufVars, loaded, running, rssIdx, envVars, cmdVars, fmtVars, barVars>>

Recorder == RecorderSampleOk \/ RecorderSampleFails \/ RecorderSleep \/ RecorderWake

----------------------------------------------------------------------------
(* Messages and results *)

Text(body) == [kind |-> "text", body |-> body]
Image(body) == [kind |-> "image", body |-> body]

NoResult == [kind |-> "none", value |-> <<FALSE, "", FALSE>>]
Returned(ok, message, flag) == [kind |-> "returned", value |-> <<ok, message, flag>>]
Denied == [kind |-> "denied", value |-> <<FALSE, "", FALSE>>]

NoData == [none |-> TRUE]
NoLocals == [current |-> 0, avg |-> <<0, 1>>, max_mem |-> 0, min_mem |-> 0, trend_str |-> ""]

\* f"{x:.1f}" of the fraction num/den: tenths, rounded to nearest, ties to even
Fmt1(num, den) ==
    LET q == (10 * num) \div den
        r == (10 * num) % den
    IN  IF 2 * r < den THEN q
        ELSE IF 2 * r > den THEN q + 1
        ELSE IF q % 2 = 0 THEN q ELSE q + 1

----------------------------------------------------------------------------
(* The permission decorator and the command table *)

\* the commands whose execute carries @require_permission("access", ...)
Decorated_MhelpToo == {"status", "sysinfo", "mem", "mhelp"}

Decorated == {"status", "sysinfo", "mem"}

Commands == {"status", "sysinfo", "mem", "mhelp"}

\* deny_message of each decorator
DenyMessage(c) ==
    CASE c = "status" -> "no permission to view the status"
      [] c = "sysinfo" -> "no permission to view the system information"
      [] c = "mem" -> "no permission for this operation"
      [] OTHER -> ""

\* first step of the undecorated body of each execute
BodyStart(c) ==
    CASE c = "status" -> "collect"
      [] c = "sysinfo" -> "collect"
      [] c = "mem" -> "lazy"
      [] OTHER -> "send"

EntryPc(c) == IF c \in Decorated THEN "check" ELSE BodyStart(c)

\* the host routes a command to its handler
Invoke(c) ==
    /\ cmd = "none"
    /\ loaded
    /\ running = "none"
    /\ cmd' = c
    /\ \E p \in BOOLEAN : permitted' = p
    /\ pc' = EntryPc(c)
    /\ outbox' = <<>>
    /\ result' = NoResult
    /\ queries' = <<>>
    /\ UNCHANGED <<bufVars, recVars, running, rssIdx, envVars, data, img, locals,
                   fmtVars, barVars>>

\* require_permission: the caller holds the node, the wrapped execute runs
PermissionGranted ==
    /\ cmd \in Decorated /\ pc = "check" /\ CanRun("handler")
    /\ permitted
    /\ pc' = BodyStart(cmd)
    /\ running' = After("handler", "handler", "check")
    /\ UNCHANGED <<bufVars, recVars, rssIdx, envVars, cmd, permitted, data, img,
                   locals, outbox, result, queries, fmtVars, barVars>>

\* require_permission: the caller lacks the node, execute is not called
PermissionRefused ==
    /\ cmd \in Decorated /\ pc = "check" /\ CanRun("handler")
    /\ ~permitted
    /\ pc' = "deny"
    /\ running' = After("handler", "handler", "check")
    /\ UNCHANGED <<bufVars, recVars, rssIdx, envVars, cmd, permitted, data, img,
                   locals, outbox, result, queries, fmtVars, barVars>>

\* require_permission: the fixed deny_message is sent instead
PermissionDeny ==
    /\ cmd \in Decorated /\ pc = "deny" /\ CanRun("handler")
    /\ outbox' = Append(outbox, Text([deny |-> DenyMessage(cmd)]))
    /\ result' = Denied
    /\ pc' = "done"
    /\ running' = After("handler", "handler", "deny")
    /\ UNCHANGED <<bufVars, recVars, rssIdx, envVars, cmd, permitted, data, img,
                   locals, queries, fmtVars, barVars>>

\* the host takes the returned value; the handler instance is dropped
Finish ==
    /\ cmd # "none" /\ pc = "done"
    /\ running = "none"
    /\ cmd' = "none"
    /\ pc' = "idle"
    /\ permitted' = FALSE
    /\ data' = NoData
    /\ img' = NoData
    /\ locals' = NoLocals
    /\ outbox' = <<>>
    /\ result' = NoResult
    /\ queries' = <<>>
    /\ UNCHANGED <<bufVars, recVars, running, rssIdx, envVars, fmtVars, barVars>>

----------------------------------------------------------------------------
(* MemoryAnalysisCommand *)

TrendStable == "stable"
TrendMarkedUp == "marked increase (possible leak)"
TrendSlowUp == "slow increase"
TrendMarkedDown == "marked decrease"
TrendSlowDown == "slow decrease"
TrendCollecting == "collecting"

\* recent_avg - old_avg as the exact fraction DiffNum / DiffDen
DiffNum(h) ==
    LET recent == Suffix(h, 5)
        old == Prefix(h, 5)
    IN  SumSeq(recent) * Len(old) - SumSeq(old) * Len(recent)

DiffDen(h) == Len(Suffix(h, 5)) * Len(Prefix(h, 5))

\* the trend analysis with the first comparison made inclusive
Trend_InclusiveLeak(h) ==
    IF Len(h) >= 5
    THEN IF DiffNum(h) >= 10 * DiffDen(h) THEN TrendMarkedUp
         ELSE IF DiffNum(h) > 2 * DiffDen(h) THEN TrendSlowUp
         ELSE IF DiffNum(h) < (-10) * DiffDen(h) THEN TrendMarkedDown
         ELSE IF DiffNum(h) < (-2) * DiffDen(h) THEN TrendSlowDown
         ELSE TrendStable
    ELSE TrendCollecting

\* the trend analysis: if diff > 10 / elif diff > 2 / elif diff < -10 / elif diff < -2
Trend(h) ==
    IF Len(h) >= 5
    THEN IF DiffNum(h) > 10 * DiffDen(h) THEN TrendMarkedUp
         ELSE IF DiffNum(h) > 2 * DiffDen(h) THEN TrendSlowUp
         ELSE IF DiffNum(h) < (-10) * DiffDen(h) THEN TrendMarkedDown
         ELSE IF DiffNum(h) < (-2) * DiffDen(h) THEN TrendSlowDown
         ELSE TrendStable
    ELSE TrendCollecting

\* the f-string sent by mem: sample count, current, mean, peak, trend
MemReport(n, l) ==
    Text([title |-> "memory analysis report",
          minutes |-> n,
          current |-> Fmt1(l.current, 1),
          avg |-> Fmt1(l.avg[1], l.avg[2]),
          peak |-> Fmt1(l.max_mem, 1),
          trend |-> l.trend_str])

\* `if not MEMORY_HISTORY:` finds an empty buffer; the one sample succeeds
MemLazySampleOk ==
    /\ cmd = "mem" /\ pc = "lazy" /\ CanRun("handler")
    /\ MEMORY_HISTORY = <<>>
    /\ SampleAndAppend
    /\ queries' = Append(queries, "process")
    /\ pc' = "stats"
    /\ running' = After("handler", "mem", "lazy")
    /\ UNCHANGED <<recVars, envVars, cmd, permitted, data, img, locals, outbox,
                   result, fmtVars, barVars>>

\* the one sample raises (bare except: pass); the buffer is still empty: early return
MemLazySampleFails ==
    /\ cmd = "mem" /\ pc = "lazy" /\ CanRun("handler")
    /\ MEMORY_HISTORY = <<>>
    /\ queries' = Append(queries, "process")
    /\ result' = Returned(TRUE, "no memory data yet", FALSE)
    /\ pc' = "done"
    /\ running' = "none"
    /\ UNCHANGED <<bufVars, recVars, rssIdx, envVars, cmd, permitted, data, img,
                   locals, outbox, fmtVars, barVars>>

\* the buffer already holds samples: nothing is sampled
MemLazySkip ==
    /\ cmd = "mem" /\ pc = "lazy" /\ CanRun("handler")
    /\ MEMORY_HISTORY # <<>>
    /\ pc' = "stats"
    /\ running' = After("handler", "mem", "lazy")
    /\ UNCHANGED <<bufVars, recVars, rssIdx, envVars, cmd, permitted, data, img,
                   locals, outbox, result, queries, fmtVars, barVars>>

\* current, avg, max_mem, min_mem
MemStats ==
    /\ cmd = "mem" /\ pc = "stats" /\ CanRun("handler")
    /\ locals' = [locals EXCEPT
                    !.current = MEMORY_HISTORY[Len(MEMORY_HISTORY)],
                    !.avg = <<SumSeq(MEMORY_HISTORY), Len(MEMORY_HISTORY)>>,
                    !.max_mem = MaxSeq(MEMORY_HISTORY),
                    !.min_mem = MinSeq(MEMORY_HISTORY)]
    /\ pc' = "trend"
    /\ running' = After("handler", "mem", "stats")
    /\ UNCHANGED <<bufVars, recVars, rssIdx, envVars, cmd, permitted, data, img,
                   outbox, result, queries, fmtVars, barVars>>

\* trend_str
MemTrend ==
    /\ cmd = "mem" /\ pc = "trend" /\ CanRun("handler")
    /\ locals' = [locals EXCEPT !.trend_str = Trend(MEMORY_HISTORY)]
    /\ pc' = "send"
    /\ running' = After("handler", "mem", "trend")
    /\ UNCHANGED <<bufVars, recVars, rssIdx, envVars, cmd, permitted, data, img,
                   outbox, result, queries, fmtVars, barVars>>

\* msg = f"..."; await self.send_text(msg.strip())
MemSend ==
    /\ cmd = "mem" /\ pc = "send" /\ CanRun("handler")
    /\ outbox' = Append(outbox, MemReport(Len(MEMORY_HISTORY), locals))
    /\ pc' = "return"
    /\ running' = After("handler", "mem", "send")
    /\ UNCHANGED <<bufVars, recVars, rssIdx, envVars, cmd, permitted, data, img,
                   locals, result, queries, fmtVars, barVars>>

\* return True, "...", True
MemReturn ==
    /\ cmd = "mem" /\ pc = "return" /\ CanRun("handler")
    /\ result' = Returned(TRUE, "memory analysis sent", TRUE)
    /\ pc' = "done"
    /\ running' = "none"
    /\ UNCHANGED <<bufVars, recVars, rssIdx, envVars, cmd, permitted, data, img,
                   locals, outbox, queries, fmtVars, barVars>>

MemoryAnalysisCommand ==
    \/ MemLazySampleOk \/ MemLazySampleFails \/ MemLazySkip
    \/ MemStats \/ MemTrend \/ MemSend \/ MemReturn

----------------------------------------------------------------------------
(* format_duration *)

\* the slice taken one element too long
DurationSlice_Four(parts) == Prefix(parts, 4)

\* parts[:3]
DurationSlice(parts) == Prefix(parts, 3)

\* a returned string is modelled by its components: "N/A", or <<magnitude, unit>> pairs
format_duration(secs_in) ==
    IF secs_in < 0 THEN [na |-> TRUE, parts |-> <<>>]
    ELSE LET days == secs_in \div 86400
             hours == (secs_in % 86400) \div 3600
             minutes == (secs_in % 3600) \div 60
             secs == secs_in % 60
             p1 == IF days > 0 THEN <<<<days, "days">>>> ELSE <<>>
             p2 == IF hours > 0 THEN Append(p1, <<hours, "hours">>) ELSE p1
             p3 == IF minutes > 0 THEN Append(p2, <<minutes, "minutes">>) ELSE p2
             p4 == IF secs > 0 \/ p3 = <<>> THEN Append(p3, <<secs, "seconds">>) ELSE p3
         IN  [na |-> FALSE, parts |-> DurationSlice(p4)]

NoDuration == [na |-> FALSE, parts |-> <<>>]

\* a caller formats a duration
FormatDuration ==
    /\ duration = NoDuration
    /\ duration' = format_duration(seconds)
    /\ UNCHANGED <<bufVars, recVars, running, rssIdx, envVars, cmdVars, seconds, disks,
                   barVars>>

----------------------------------------------------------------------------
(* get_disk_info *)

\* part.opts.lower()
Lower(o) == IF o = "RO,CDROM" THEN "ro,cdrom" ELSE o

\* 'cdrom' in ...
ContainsCdrom(o) == o \in {"ro,cdrom", "cdrom"}

UsageFails == [percent |-> -1, total_gb |-> 0, used_gb |-> 0, free_gb |-> 0]

\* the entry appended for one partition (sizes are carried in whole GB)
DiskEntry(part) ==
    [mountpoint |-> part.mountpoint,
     percent |-> part.usage.percent,
     total_gb |-> part.usage.total_gb,
     used_gb |-> part.usage.used_gb,
     free_gb |-> part.usage.free_gb]

\* if 'cdrom' in part.opts.lower() or part.fstype == '': continue
Excluded(part) == ContainsCdrom(Lower(part.opts)) \/ part.fstype = ""

RECURSIVE DiskLoop(_, _)

\* without the inner try the error leaves the loop and the outer except ends the collection
UsageError_EndsLoop(acc, rest) == acc

\* psutil.disk_usage raises: the inner `except: pass` goes on with the next partition
UsageError(acc, rest) == DiskLoop(acc, rest)

\* for part in psutil.disk_partitions(): ...
DiskLoop(acc, parts) ==
    IF parts = <<>> THEN acc
    ELSE LET part == Head(parts) IN
         IF Excluded(part) THEN DiskLoop(acc, Tail(parts))
         ELSE IF part.usage = UsageFails THEN UsageError(acc, Tail(parts))
         ELSE DiskLoop(Append(acc, DiskEntry(part)), Tail(parts))

\* p.up = FALSE: psutil.disk_partitions() itself raises, the outer except returns []
get_disk_info(p) == IF p.up THEN DiskLoop(<<>>, p.parts) ELSE <<>>

NoDisks == <<[none |-> TRUE]>>

\* a caller collects the disks
CollectDisks ==
    /\ disks = NoDisks
    /\ disks' = get_disk_info(partitions)
    /\ UNCHANGED <<bufVars, recVars, running, rssIdx, envVars, cmdVars, seconds,
                   duration, barVars>>

----------------------------------------------------------------------------
(* MonitorImageGenerator *)

success_color == <<72, 199, 142>>
warning_color == <<255, 193, 69>>
danger_color == <<255, 99, 99>>

\* the thresholds with the first comparison made inclusive
get_usage_color_Inclusive(p) ==
    IF p <= 60 * 10 THEN success_color
    ELSE IF p < 85 * 10 THEN warning_color
    ELSE danger_color

\* _get_usage_color
get_usage_color(p) ==
    IF p < 60 * 10 THEN success_color
    ELSE IF p < 85 * 10 THEN warning_color
    ELSE danger_color

\* _draw_progress_bar: the fill is drawn in the color the caller passes
draw_progress_bar(label, percentage, color) ==
    [bar |-> "progress", label |-> label, percentage |-> percentage, fill |-> color]

\* _draw_mini_progress: the fill color is computed inside
draw_mini_progress(label, percentage) ==
    [bar |-> "mini", label |-> label, percentage |-> percentage,
     fill |-> get_usage_color(percentage)]

\* _draw_resource_usage: the CPU bar and the memory bar
draw_resource_usage(d) ==
    << draw_progress_bar("CPU", d.cpu_percent, get_usage_color(d.cpu_percent)),
       draw_progress_bar("RAM", d.ram_percent, get_usage_color(d.ram_percent)) >>

\* _draw_disk_info: for i, disk in enumerate(disks[:5])
draw_disk_info(d) ==
    LET shown == Prefix(d.disks, 5)
    IN  [i \in 1..Len(shown) |-> draw_mini_progress(shown[i].mountpoint, shown[i].percent)]

\* _draw_plugin_info
draw_plugin_info(d) == <<d.plugin_count, d.enabled_plugin_count>>

\* generate: the cards drawn on the canvas
generate(d) ==
    [resource |-> draw_resource_usage(d),
     disk |-> draw_disk_info(d),
     plugin |-> draw_plugin_info(d),
     bot_qq |-> d.bot_qq,
     bot_memory_mb |-> Fmt1(d.bot_memory_mb, 1)]

GenerateRaised == [raised |-> TRUE]

\* the bars drawn for one percentage value
DrawCpuBar ==
    /\ drawn = NoData
    /\ drawn' = draw_resource_usage([cpu_percent |-> percent, ram_percent |-> 0])[1]
    /\ UNCHANGED <<bufVars, recVars, running, rssIdx, envVars, cmdVars, fmtVars, percent>>

DrawRamBar ==
    /\ drawn = NoData
    /\ drawn' = draw_resource_usage([cpu_percent |-> 0, ram_percent |-> percent])[2]
    /\ UNCHANGED <<bufVars, recVars, running, rssIdx, envVars, cmdVars, fmtVars, percent>>

DrawDiskBar ==
    /\ drawn = NoData
    /\ drawn' = draw_disk_info([disks |-> <<[mountpoint |-> 1, percent |-> percent]>>])[1]
    /\ UNCHANGED <<bufVars, recVars, running, rssIdx, envVars, cmdVars, fmtVars, percent>>

----------------------------------------------------------------------------
(* StatusCommand *)

\* global_config.bot.bot_qq_id
BotQQ == "bot_qq_id"

\* len([p for p in plugins if p.enable_plugin])
EnabledCount(ps) == Cardinality({i \in 1..Len(ps) : ps[i]})

\* the snapshot dict built before the image attempt;
\* procOk = FALSE: get_bot_process_info returned {} and memory_mb defaults to 0
Snapshot(procOk) ==
    [cpu_percent |-> host.cpu,
     ram_percent |-> host.ram,
     disks |-> get_disk_info(partitions),
     bot_memory_mb |-> IF procOk THEN ReadRss ELSE 0,
     bot_qq |-> BotQQ,
     plugin_count |-> Len(plugins),
     enabled_plugin_count |-> EnabledCount(plugins)]

\* the text version of the report, built from the snapshot dict
StatusText(d) ==
    Text([title |-> "bot status report",
          bot_qq |-> d.bot_qq,
          memory |-> Fmt1(d.bot_memory_mb, 1),
          cpu |-> d.cpu_percent,
          ram |-> d.ram_percent,
          enabled |-> d.enabled_plugin_count,
          total |-> d.plugin_count])

\* base64.b64encode(img_bytes).decode()
Base64(bytes) == [b64 |-> bytes]

\* the except branch sends the notice and returns at once
AfterNotice_Returns == "return_text"

\* after the except branch the code falls through to the text version
AfterNotice == "send_text"

StatusCollect ==
    /\ cmd = "status" /\ pc = "collect" /\ CanRun("handler")
    /\ \E procOk \in BOOLEAN : data' = Snapshot(procOk)
    /\ queries' = queries \o <<"system", "cpu", "ram", "disks", "process", "plugins">>
    /\ pc' = "generate"
    /\ running' = After("handler", "status", "collect")
    /\ UNCHANGED <<bufVars, recVars, rssIdx, envVars, cmd, permitted, img, locals,
                   outbox, result, fmtVars, barVars>>

\* generator.generate(data) returns the image bytes
StatusGenerateOk ==
    /\ cmd = "status" /\ pc = "generate" /\ CanRun("handler")
    /\ IMAGE_GENERATOR_AVAILABLE
    /\ img' = generate(data)
    /\ pc' = "send_image"
    /\ running' = After("handler", "status", "generate")
    /\ UNCHANGED <<bufVars, recVars, rssIdx, envVars, cmd, permitted, data, locals,
                   outbox, result, queries, fmtVars, barVars>>

\* the generator raises
StatusGenerateRaises ==
    /\ cmd = "status" /\ pc = "generate" /\ CanRun("handler")
    /\ IMAGE_GENERATOR_AVAILABLE
    /\ img' = GenerateRaised
    /\ pc' = "send_notice"
    /\ running' = After("handler", "status", "generate")
    /\ UNCHANGED <<bufVars, recVars, rssIdx, envVars, cmd, permitted, data, locals,
                   outbox, result, queries, fmtVars, barVars>>

\* the import of the generator failed: text mode only
StatusNoGenerator ==
    /\ cmd = "status" /\ pc = "generate" /\ CanRun("handler")
    /\ ~IMAGE_GENERATOR_AVAILABLE
    /\ pc' = "send_text"
    /\ running' = After("handler", "status", "generate")
    /\ UNCHANGED <<bufVars, recVars, rssIdx, envVars, cmd, permitted, data, img,
                   locals, outbox, result, queries, fmtVars, barVars>>

\* await self.send_image(b64_img)
StatusSendImage ==
    /\ cmd = "status" /\ pc = "send_image" /\ CanRun("handler")
    /\ outbox' = Append(outbox, Image(Base64(img)))
    /\ pc' = "return_image"
    /\ running' = After("handler", "status", "send_image")
    /\ UNCHANGED <<bufVars, recVars, rssIdx, envVars, cmd, permitted, data, img,
                   locals, result, queries, fmtVars, barVars>>

StatusReturnImage ==
    /\ cmd = "status" /\ pc = "return_image" /\ CanRun("handler")
    /\ result' = Returned(TRUE, "status image sent", TRUE)
    /\ pc' = "done"
    /\ running' = "none"
    /\ UNCHANGED <<bufVars, recVars, rssIdx, envVars, cmd, permitted, data, img,
                   locals, outbox, queries, fmtVars, barVars>>

\* except Exception as e: await self.send_text(failure notice)
StatusSendNotice ==
    /\ cmd = "status" /\ pc = "send_notice" /\ CanRun("handler")
    /\ outbox' = Append(outbox, Text([notice |-> "image generation failed"]))
    /\ pc' = AfterNotice
    /\ running' = After("handler", "status", "send_notice")
    /\ UNCHANGED <<bufVars, recVars, rssIdx, envVars, cmd, permitted, data, img,
                   locals, result, queries, fmtVars, barVars>>

\* text = f"..."; await self.send_text(text.strip())
StatusSendText ==
    /\ cmd = "status" /\ pc = "send_text" /\ CanRun("handler")
    /\ outbox' = Append(outbox, StatusText(data))
    /\ pc' = "return_text"
    /\ running' = After("handler", "status", "send_text")
    /\ UNCHANGED <<bufVars, recVars, rssIdx, envVars, cmd, permitted, data, img,
                   locals, result, queries, fmtVars, barVars>>

StatusReturnText ==
    /\ cmd = "status" /\ pc = "return_text" /\ CanRun("handler")
    /\ result' = Returned(TRUE, "status information sent", TRUE)
    /\ pc' = "done"
    /\ running' = "none"
    /\ UNCHANGED <<bufVars, recVars, rssIdx, envVars, cmd, permitted, data, img,
                   locals, outbox, queries, fmtVars, barVars>>

StatusCommand ==
    \/ StatusCollect \/ StatusGenerateOk \/ StatusGenerateRaises \/ StatusNoGenerator
    \/ StatusSendImage \/ StatusReturnImage \/ StatusSendNotice \/ StatusSendText
    \/ StatusReturnText

----------------------------------------------------------------------------
(* SysInfoCommand *)

\* one "- mountpoint: percent% (free GB Free)" line per collected disk
DiskLines(ds) ==
    [i \in 1..Len(ds) |-> [mountpoint |-> ds[i].mountpoint,
                           percent |-> ds[i].percent,
                           free |-> Fmt1(ds[i].free_gb, 1)]]

\* the info list: overview lines, then the disk lines
SysInfoLines ==
    [title |-> "system overview",
     cpu |-> host.cpu,
     ram |-> host.ram,
     disk_lines |-> DiskLines(get_disk_info(partitions))]

SysInfoCollect ==
    /\ cmd = "sysinfo" /\ pc = "collect" /\ CanRun("handler")
    /\ data' = SysInfoLines
    /\ queries' = queries \o <<"cpu", "ram", "system", "disks">>
    /\ pc' = "send"
    /\ running' = After("handler", "sysinfo", "collect")
    /\ UNCHANGED <<bufVars, recVars, rssIdx, envVars, cmd, permitted, img, locals,
                   outbox, result, fmtVars, barVars>>

\* await self.send_text("\n".join(info))
SysInfoSend ==
    /\ cmd = "sysinfo" /\ pc = "send" /\ CanRun("handler")
    /\ outbox' = Append(outbox, Text(data))
    /\ pc' = "return"
    /\ running' = After("handler", "sysinfo", "send")
    /\ UNCHANGED <<bufVars, recVars, rssIdx, envVars, cmd, permitted, data, img,
                   locals, result, queries, fmtVars, barVars>>

SysInfoReturn ==
    /\ cmd = "sysinfo" /\ pc = "return" /\ CanRun("handler")
    /\ result' = Returned(TRUE, "system information sent", TRUE)
    /\ pc' = "done"
    /\ running' = "none"
    /\ UNCHANGED <<bufVars, recVars, rssIdx, envVars, cmd, permitted, data, img,
                   locals, outbox, queries, fmtVars, barVars>>

SysInfoCommand == SysInfoCollect \/ SysInfoSend \/ SysInfoReturn

----------------------------------------------------------------------------
(* MonitorHelpCommand *)

HelpText == Text([title |-> "monitor plugin help",
                  usage |-> <<"/status", "/sysinfo", "/mem">>])

\* await self.send_text(help_text.strip())
MhelpSend ==
    /\ cmd = "mhelp" /\ pc = "send" /\ CanRun("handler")
    /\ outbox' = Append(outbox, HelpText)
    /\ pc' = "return"
    /\ running' = After("handler", "mhelp", "send")
    /\ UNCHANGED <<bufVars, recVars, rssIdx, envVars, cmd, permitted, data, img,
                   locals, result, queries, fmtVars, barVars>>

MhelpReturn ==
    /\ cmd = "mhelp" /\ pc = "return" /\ CanRun("handler")
    /\ result' = Returned(TRUE, "help sent", TRUE)
    /\ pc' = "done"
    /\ running' = "none"
    /\ UNCHANGED <<bufVars, recVars, rssIdx, envVars, cmd, permitted, data, img,
                   locals, outbox, queries, fmtVars, barVars>>

MonitorHelpCommand == MhelpSend \/ MhelpReturn

----------------------------------------------------------------------------
(* The environment *)

\* workloads: the resident memory (MB) read by successive successful samples, cyclic
Profiles == { <<100, 101, 103, 106, 110, 122, 135>>,
              <<135, 122, 110, 106, 103, 101, 100>> }

HostStates == { [cpu |-> 125, ram |-> 60 * 10], [cpu |-> 85 * 10, ram |-> 599] }

PluginStates == { <<TRUE, TRUE, FALSE>>, <<TRUE, FALSE, FALSE>> }

Usage(pct, total, used) ==
    [percent |-> pct, total_gb |-> total, used_gb |-> used, free_gb |-> total - used]

\* the kinds of partition psutil.disk_partitions() can list
PartKinds ==
    { [opts |-> "rw", fstype |-> "ext4", usage |-> Usage(455, 200, 91)],
      [opts |-> "rw,relatime", fstype |-> "ntfs", usage |-> Usage(900, 500, 450)],
      [opts |-> "ro,cdrom", fstype |-> "iso9660", usage |-> Usage(1000, 4, 4)],
      [opts |-> "RO,CDROM", fstype |-> "udf", usage |-> Usage(1000, 8, 8)],
      [opts |-> "rw", fstype |-> "", usage |-> Usage(0, 1, 0)],
      [opts |-> "rw", fstype |-> "ext4", usage |-> UsageFails] }

\* the partitions in enumeration order; the mountpoint is the position
MkParts(ks) ==
    [i \in 1..Len(ks) |-> [mountpoint |-> i, opts |-> ks[i].opts,
                           fstype |-> ks[i].fstype, usage |-> ks[i].usage]]

MainPartitions ==
    [up |-> TRUE,
     parts |-> MkParts(<< [opts |-> "rw", fstype |-> "ext4", usage |-> Usage(455, 200, 91)],
                          [opts |-> "ro,cdrom", fstype |-> "iso9660", usage |-> Usage(1000, 4, 4)],
                          [opts |-> "rw", fstype |-> "ext4", usage |-> UsageFails],
                          [opts |-> "rw,relatime", fstype |-> "ntfs", usage |-> Usage(900, 500, 450)] >>)]

HostChange ==
    /\ \E h \in HostStates \ {host} : host' = h
    /\ UNCHANGED <<bufVars, recVars, running, rssIdx, profile, plugins, partitions,
                   IMAGE_GENERATOR_AVAILABLE, cmdVars, fmtVars, barVars>>

PluginChange ==
    /\ \E ps \in PluginStates \ {plugins} : plugins' = ps
    /\ UNCHANGED <<bufVars, recVars, running, rssIdx, profile, host, partitions,
                   IMAGE_GENERATOR_AVAILABLE, cmdVars, fmtVars, barVars>>

----------------------------------------------------------------------------
(* Specifications *)

IdleHandler ==
    /\ cmd = "none" /\ pc = "idle" /\ permitted = FALSE
    /\ data = NoData /\ img = NoData /\ locals = NoLocals
    /\ outbox = <<>> /\ result = NoResult /\ queries = <<>>

NoCalls ==
    /\ seconds = 0 /\ duration = NoDuration /\ disks = NoDisks
    /\ percent = 0 /\ drawn = NoData

\* the module is imported: the buffer is empty, the plugin is not loaded yet
Fresh ==
    /\ MEMORY_HISTORY = <<>> /\ appended = <<>>
    /\ loaded = FALSE /\ recPc = "unstarted" /\ running = "none"
    /\ rssIdx = 1
    /\ IdleHandler

\* one fixed environment, for the specifications that do not depend on it
FixedEnv ==
    /\ profile = <<100, 101, 103, 106, 110, 122, 135>>
    /\ host = [cpu |-> 125, ram |-> 60 * 10]
    /\ plugins = <<TRUE, TRUE, FALSE>>
    /\ partitions = MainPartitions
    /\ IMAGE_GENERATOR_AVAILABLE = TRUE

Init ==
    /\ Fresh
    /\ profile \in Profiles
    /\ host \in HostStates /\ plugins \in PluginStates
    /\ partitions = MainPartitions
    /\ IMAGE_GENERATOR_AVAILABLE \in BOOLEAN
    /\ NoCalls

Handlers ==
    \/ PermissionGranted \/ PermissionRefused \/ PermissionDeny
    \/ StatusCommand \/ SysInfoCommand \/ MemoryAnalysisCommand \/ MonitorHelpCommand
    \/ Finish

Next ==
    \/ OnPluginLoaded
    \/ Recorder
    \/ \E c \in Commands : Invoke(c)
    \/ Handlers
    \/ HostChange \/ PluginChange

Spec == Init /\ [][Next]_vars

----------------------------------------------------------------------------
(* The recorder and mem alone, under the scheduling of the event loop *)

LiveInit == Fresh /\ FixedEnv /\ NoCalls

MemHandler ==
    \/ PermissionGranted \/ PermissionRefused \/ PermissionDeny
    \/ MemoryAnalysisCommand
    \/ Finish

LiveNext ==
    \/ OnPluginLoaded
    \/ Recorder
    \/ Invoke("mem")
    \/ MemHandler

\* the loop runs every ready task (it serves them first in, first out) and the
\* 60 second timer expires; a handler that holds the loop runs on to its await
LiveSpec ==
    /\ LiveInit /\ [][LiveNext]_vars
    /\ SF_vars(Recorder)
    /\ WF_vars(MemHandler)

----------------------------------------------------------------------------
(* mem on an arbitrary short buffer, while the recorder sleeps *)

SeedValues == {100, 110, 111, 150, 151}

SeedBuffers == UNION { [1..n -> SeedValues] : n \in 0..MaxSeedLen }

TrendInit ==
    /\ MEMORY_HISTORY \in SeedBuffers /\ appended = MEMORY_HISTORY
    /\ loaded = TRUE /\ recPc = "sleeping" /\ running = "none"
    /\ rssIdx = 1
    /\ IdleHandler /\ FixedEnv /\ NoCalls

TrendNext == Invoke("mem") \/ MemHandler

TrendSpec == TrendInit /\ [][TrendNext]_vars

----------------------------------------------------------------------------
(* format_duration on every argument up to MaxDays days *)

DurationInit ==
    /\ Fresh /\ FixedEnv
    /\ seconds \in (-2)..(MaxDays * 86400 + 3661)
    /\ duration = NoDuration /\ disks = NoDisks
    /\ percent = 0 /\ drawn = NoData

DurationNext == FormatDuration

DurationSpec == DurationInit /\ [][DurationNext]_vars

----------------------------------------------------------------------------
(* get_disk_info on every partition table of up to MaxParts partitions *)

PartitionTables ==
    { [up |-> u, parts |-> MkParts(ks)] :
        u \in BOOLEAN, ks \in UNION { [1..n -> PartKinds] : n \in 0..MaxParts } }

DiskInit ==
    /\ Fresh
    /\ profile = <<100, 101, 103, 106, 110, 122, 135>>
    /\ host = [cpu |-> 125, ram |-> 60 * 10]
    /\ plugins = <<TRUE, TRUE, FALSE>>
    /\ IMAGE_GENERATOR_AVAILABLE = TRUE
    /\ partitions \in PartitionTables
    /\ seconds = 0 /\ duration = NoDuration /\ disks = NoDisks
    /\ percent = 0 /\ drawn = NoData

DiskNext == CollectDisks

DiskSpec == DiskInit /\ [][DiskNext]_vars

----------------------------------------------------------------------------
(* the progress bars on every percentage, in tenths, from 0 to 100 *)

MaxPercent == 100 * 10

ColorInit ==
    /\ Fresh /\ FixedEnv
    /\ seconds = 0 /\ duration = NoDuration /\ disks = NoDisks
    /\ percent \in 0..MaxPercent /\ drawn = NoData

ColorNext == DrawCpuBar \/ DrawRamBar \/ DrawDiskBar

ColorSpec == ColorInit /\ [][ColorNext]_vars

----------------------------------------------------------------------------
(* status and sysinfo on partition tables of up to MaxShownParts partitions *)

DisplayKinds ==
    { [opts |-> "rw", fstype |-> "ext4", usage |-> Usage(455, 200, 91)],
      [opts |-> "rw,relatime", fstype |-> "ntfs", usage |-> Usage(900, 500, 450)],
      [opts |-> "rw", fstype |-> "ext4", usage |-> UsageFails] }

DisplayTables ==
    { [up |-> TRUE, parts |-> MkParts(ks)] :
        ks \in UNION { [1..n -> DisplayKinds] : n \in 0..MaxShownParts } }

DisplayInit ==
    /\ MEMORY_HISTORY = <<>> /\ appended = <<>>
    /\ loaded = TRUE /\ recPc = "sleeping" /\ running = "none"
    /\ rssIdx = 1
    /\ IdleHandler
    /\ profile = <<100, 101, 103, 106, 110, 122, 135>>
    /\ host = [cpu |-> 125, ram |-> 60 * 10]
    /\ plugins = <<TRUE, TRUE, FALSE>>
    /\ IMAGE_GENERATOR_AVAILABLE \in BOOLEAN
    /\ partitions \in DisplayTables
    /\ NoCalls

DisplayNext ==
    \/ Invoke("status") \/ Invoke("sysinfo")
    \/ PermissionGranted \/ PermissionRefused \/ PermissionDeny
    \/ StatusCommand \/ SysInfoCommand
    \/ Finish

DisplaySpec == DisplayInit /\ [][DisplayNext]_vars

----------------------------------------------------------------------------
(* Properties *)

\* C1: the buffer never holds more than 60 samples and is exactly the most
\* recently appended min(n, 60) samples, oldest first; a step leaves it alone
\* or appends one value, dropping the oldest entry (and no other) when full.
C1_BufferIsFifo ==
    /\ [](/\ Len(MEMORY_HISTORY) <= 60
          /\ Len(MEMORY_HISTORY) = Min2(Len(appended), 60)
          /\ \A i \in 1..Len(MEMORY_HISTORY) :
                MEMORY_HISTORY[i] =
                    appended[Len(appended) - Len(MEMORY_HISTORY) + i])
    /\ [][\/ MEMORY_HISTORY' = MEMORY_HISTORY
          \/ /\ Len(MEMORY_HISTORY) < 60
             /\ Len(MEMORY_HISTORY') = Len(MEMORY_HISTORY) + 1
             /\ \A i \in 1..Len(MEMORY_HISTORY) : MEMORY_HISTORY'[i] = MEMORY_HISTORY[i]
          \/ /\ Len(MEMORY_HISTORY) = 60
             /\ Len(MEMORY_HISTORY') = 60
             /\ \A i \in 1..59 : MEMORY_HISTORY'[i] = MEMORY_HISTORY[i + 1]]_vars

\* an append to the full buffer has evicted the oldest sample
C1_Witness ==
    /\ Len(MEMORY_HISTORY) = 60
    /\ Len(appended) = 61
    /\ appended[1] # MEMORY_HISTORY[1]
    /\ MEMORY_HISTORY[60] = appended[61]

\* five times (mean of the most recent 5) - (mean of the earliest 5)
FiveDiff(h) ==
    LET n == Len(h)
    IN  (h[n - 4] + h[n - 3] + h[n - 2] + h[n - 1] + h[n])
        - (h[1] + h[2] + h[3] + h[4] + h[5])

MemReportSent ==
    /\ cmd = "mem" /\ permitted /\ pc \in {"return", "done"}
    /\ Len(outbox) = 1

\* C2: the trend in the report is "collecting" below 5 samples; from 5 samples
\* on it is the bucket of diff: > 10 marked increase, (2, 10] slow increase,
\* < -10 marked decrease, [-10, -2) slow decrease, [-2, 2] stable.
C2_TrendTable ==
    MemReportSent =>
        LET h == MEMORY_HISTORY
            t == outbox[1].body.trend
        IN  IF Len(h) < 5 THEN t = "collecting"
            ELSE LET d == FiveDiff(h) IN
                 /\ (d > 50) <=> (t = "marked increase (possible leak)")
                 /\ (10 < d /\ d <= 50) <=> (t = "slow increase")
                 /\ (d < -50) <=> (t = "marked decrease")
                 /\ (-50 <= d /\ d < -10) <=> (t = "slow decrease")
                 /\ (-10 <= d /\ d <= 10) <=> (t = "stable")

\* a report on a buffer whose diff is exactly 10: still "slow increase"
C2_Witness ==
    /\ MemReportSent
    /\ Len(MEMORY_HISTORY) >= 5
    /\ FiveDiff(MEMORY_HISTORY) = 50
    /\ outbox[1].body.trend = "slow increase"

StatusDone == cmd = "status" /\ permitted /\ pc = "done"

\* C3: a permitted status whose image generation succeeds sends the image and
\* nothing else and returns success; if the generation raises, the handler
\* returns success after sending first the failure notice and then the text
\* report, whose bot identifier, memory, CPU and plugin counts are those of
\* the snapshot collected before the attempt; the snapshot is never rebuilt.
C3_StatusFallback ==
    /\ [](StatusDone /\ IMAGE_GENERATOR_AVAILABLE =>
            IF img = GenerateRaised
            THEN /\ Len(outbox) = 2
                 /\ outbox[1] = [kind |-> "text",
                                 body |-> [notice |-> "image generation failed"]]
                 /\ outbox[2].kind = "text"
                 /\ outbox[2].body.bot_qq = data.bot_qq
                 /\ outbox[2].body.memory = 10 * data.bot_memory_mb
                 /\ outbox[2].body.cpu = data.cpu_percent
                 /\ outbox[2].body.enabled = data.enabled_plugin_count
                 /\ outbox[2].body.total = data.plugin_count
                 /\ result.kind = "returned"
                 /\ result.value[1] = TRUE
            ELSE /\ Len(outbox) = 1
                 /\ outbox[1].kind = "image"
                 /\ result.kind = "returned"
                 /\ result.value[1] = TRUE)
    /\ [][cmd = "status" /\ pc \notin {"check", "collect"} /\ cmd' = "status"
            => data' = data]_vars

\* the fallback has run, and the host's CPU load and plugin registry have
\* changed since the snapshot was taken
C3_Witness ==
    /\ StatusDone
    /\ img = GenerateRaised
    /\ Len(outbox) = 2
    /\ data.cpu_percent # host.cpu
    /\ data.enabled_plugin_count # EnabledCount(plugins)
    /\ outbox[2].body.cpu = data.cpu_percent

\* C4: mem on an empty buffer makes exactly one sampling attempt; when it
\* fails the command returns normally, sends no trend report, and tells the
\* user that there is no data.
C4_NoDataIsReported ==
    (cmd = "mem" /\ permitted /\ pc = "done" /\ MEMORY_HISTORY = <<>>) =>
        /\ queries = <<"process">>
        /\ result.kind = "returned"
        /\ locals.trend_str = ""
        /\ \E i \in 1..Len(outbox) : outbox[i].kind = "text"

\* C5: status, sysinfo and mem invoked without the permission send their fixed
\* rejection message and nothing else, read no metric, compute nothing, and no
\* step of theirs changes the buffer; mhelp sends the usage summary and
\* returns success whether or not the caller has the permission.
C5_DeniedRunsNothing ==
    /\ [](/\ (cmd \in {"status", "sysinfo", "mem"} /\ ~permitted /\ pc = "done") =>
                /\ outbox = <<[kind |-> "text", body |-> [deny |-> DenyMessage(cmd)]]>>
                /\ DenyMessage(cmd) # ""
                /\ queries = <<>>
                /\ data = NoData /\ img = NoData /\ locals = NoLocals
          /\ (cmd \in {"status", "sysinfo", "mem"} /\ ~permitted) =>
                pc \in {"check", "deny", "done"}
          /\ (cmd = "mhelp" /\ pc = "done") =>
                /\ outbox = <<HelpText>>
                /\ result.kind = "returned" /\ result.value[1] = TRUE)
    /\ [][(cmd \in {"status", "sysinfo", "mem"} /\ ~permitted /\ pc' # pc)
            => MEMORY_HISTORY' = MEMORY_HISTORY]_vars

\* mhelp has answered a caller who lacks the permission
C5_Witness ==
    /\ cmd = "mhelp" /\ ~permitted /\ pc = "done"
    /\ outbox = <<HelpText>>
    /\ MEMORY_HISTORY # <<>>

\* C6: the started recorder stays in its loop, whose steps come in the order
\* sample, begin the sleep, wake; an iteration appends one sample or, when
\* the query fails, leaves the buffer as it is and still goes to sleep; and
\* after every sleep another sampling attempt is made.
C6_RecorderNeverStops ==
    /\ [][/\ recPc \in {"sample", "sleep", "sleeping"} =>
                recPc' \in {"sample", "sleep", "sleeping"}
          /\ recPc = "sample" /\ recPc' # recPc =>
                /\ recPc' = "sleep"
                /\ \/ MEMORY_HISTORY' = MEMORY_HISTORY
                   \/ appended' # appended
          /\ recPc = "sleep" /\ recPc' # recPc => recPc' = "sleeping"
          /\ recPc = "sleeping" /\ recPc' # recPc => recPc' = "sample"]_vars
    /\ [](loaded => <>(recPc = "sample"))
    /\ [](recPc = "sample" => <>(recPc = "sleeping"))

\* the first iteration failed: nothing was appended and the recorder sleeps
C6_Witness ==
    /\ loaded
    /\ recPc = "sleeping"
    /\ MEMORY_HISTORY = <<>>

\* the report mem would send if it computed every field from the buffer h
ReportOf(h) ==
    [kind |-> "text",
     body |-> [title |-> "memory analysis report",
               minutes |-> Len(h),
               current |-> 10 * h[Len(h)],
               avg |-> Fmt1(SumSeq(h), Len(h)),
               peak |-> 10 * MaxSeq(h),
               trend |-> Trend(h)]]

\* C7: from its first read of the buffer to the sending of the report the mem
\* handler keeps the event loop, so what it has computed so far is always
\* computed from the buffer as it is now, and the report it sends gives the
\* count, current, mean, peak and trend of one and the same buffer.
C7_ReportFromOneBuffer ==
    /\ [](/\ (cmd = "mem" /\ pc \in {"stats", "trend", "send"}) =>
                /\ running = "handler"
                /\ MEMORY_HISTORY # <<>>
          /\ (cmd = "mem" /\ pc \in {"trend", "send"}) =>
                /\ locals.current = MEMORY_HISTORY[Len(MEMORY_HISTORY)]
                /\ locals.avg = <<SumSeq(MEMORY_HISTORY), Len(MEMORY_HISTORY)>>
                /\ locals.max_mem = MaxSeq(MEMORY_HISTORY)
          /\ (cmd = "mem" /\ pc = "send") =>
                locals.trend_str = Trend(MEMORY_HISTORY))
    /\ [][(cmd = "mem" /\ pc = "send" /\ pc' = "return")
            => outbox' = <<ReportOf(MEMORY_HISTORY)>>]_vars

\* the recorder is ready to append while mem is between its reads, and the
\* next sample would change the trend
C7_Witness ==
    /\ cmd = "mem" /\ pc = "trend"
    /\ recPc = "sample"
    /\ Len(MEMORY_HISTORY) >= 5
    /\ Trend(DequeAppend(MEMORY_HISTORY, ReadRss)) # Trend(MEMORY_HISTORY)

\* the four units of d seconds, most significant first
UnitsOf(d) ==
    << <<d \div 86400, "days">>,
       <<(d \div 3600) % 24, "hours">>,
       <<(d \div 60) % 60, "minutes">>,
       <<d % 60, "seconds">> >>

IsNonZero(u) == u[1] > 0

\* C8: for d >= 0 the result lists the non-zero units of d, most significant
\* first, each with its true magnitude, cut to the first three; for d = 0 it
\* is the single component 0 seconds; for d < 0 it is the string "N/A".
C8_DurationFormat ==
    duration # NoDuration =>
        IF seconds < 0 THEN duration = [na |-> TRUE, parts |-> <<>>]
        ELSE /\ duration.na = FALSE
             /\ Len(duration.parts) <= 3
             /\ duration.parts =
                    IF seconds = 0 THEN << <<0, "seconds">> >>
                    ELSE LET nz == SelectSeq(UnitsOf(seconds), IsNonZero)
                         IN  SubSeq(nz, 1, Min2(3, Len(nz)))

\* a duration with four non-zero units: the seconds are cut
C8_Witness ==
    /\ seconds = 86400 + 3600 + 60 + 1
    /\ duration = [na |-> FALSE,
                   parts |-> << <<1, "days">>, <<1, "hours">>, <<1, "minutes">> >>]

\* C9: a bar drawn for a percentage p in [0, 100] is filled with the success
\* color when p < 60, the warning color when 60 <= p < 85 and the danger
\* color when p >= 85; the three colors differ, so each p has one color, and
\* the CPU bar, the memory bar and the disk row follow the same rule.
C9_UsageColor ==
    /\ success_color # warning_color
    /\ warning_color # danger_color
    /\ success_color # danger_color
    /\ drawn # NoData =>
        /\ drawn.percentage = percent
        /\ drawn.bar \in {"progress", "mini"}
        /\ (percent < 600) => drawn.fill = <<72, 199, 142>>
        /\ (600 <= percent /\ percent < 850) => drawn.fill = <<255, 193, 69>>
        /\ (percent >= 850) => drawn.fill = <<255, 99, 99>>

\* a disk row drawn at exactly 60 percent is filled with the warning color
C9_Witness ==
    /\ percent = 600
    /\ drawn # NoData
    /\ drawn.bar = "mini"
    /\ drawn.fill = warning_color

\* positions of the partitions that were enumerated and must be reported
Eligible ==
    IF partitions.up
    THEN { i \in 1..Len(partitions.parts) :
             /\ partitions.parts[i].fstype # ""
             /\ partitions.parts[i].opts \notin {"ro,cdrom", "RO,CDROM"}
             /\ partitions.parts[i].usage.percent >= 0 }
    ELSE {}

\* C10: the collected list has one entry for each enumerated partition with
\* a filesystem type, no optical-drive mount option and a successful usage
\* query, in enumeration order, carrying that partition's usage; nothing else
\* is in the list, whatever partitions fail between them.
C10_DiskCollection ==
    disks # NoDisks =>
        /\ Len(disks) = Cardinality(Eligible)
        /\ { disks[k].mountpoint : k \in 1..Len(disks) } = Eligible
        /\ \A k \in 1..Len(disks) : \A j \in 1..Len(disks) :
                k < j => disks[k].mountpoint < disks[j].mountpoint
        /\ \A k \in 1..Len(disks) :
                LET part == partitions.parts[disks[k].mountpoint]
                IN  /\ disks[k].percent = part.usage.percent
                    /\ disks[k].total_gb = part.usage.total_gb
                    /\ disks[k].used_gb = part.usage.used_gb
                    /\ disks[k].free_gb = part.usage.free_gb

\* a partition whose usage query fails lies between two reported partitions
C10_Witness ==
    /\ disks # NoDisks
    /\ Len(partitions.parts) >= 3
    /\ partitions.parts[2].usage = UsageFails
    /\ Len(disks) >= 2
    /\ disks[1].mountpoint = 1
    /\ disks[2].mountpoint = 3

\* the first five entries of the collected list
FirstFive(ds) == [k \in 1..Min2(5, Len(ds)) |-> ds[k]]

\* C11: the disk card of a sent status image and the disk section of a sent
\* sysinfo report show at most 5 entries, which are the first 5 collected
\* ones in collection order.
C11_DisplayAtMostFive ==
    /\ (cmd = "status" /\ pc = "done" /\ Len(outbox) = 1 /\ outbox[1].kind = "image") =>
            LET rows == outbox[1].body.b64.disk
                want == FirstFive(data.disks)
            IN  /\ Len(rows) <= 5
                /\ Len(rows) = Len(want)
                /\ \A k \in 1..Len(rows) :
                        /\ rows[k].label = want[k].mountpoint
                        /\ rows[k].percentage = want[k].percent
    /\ (cmd = "sysinfo" /\ permitted /\ pc = "done") =>
            LET rows == outbox[1].body.disk_lines
                want == FirstFive(get_disk_info(partitions))
            IN  /\ Len(rows) <= 5
                /\ Len(rows) = Len(want)
                /\ \A k \in 1..Len(rows) :
                        /\ rows[k].mountpoint = want[k].mountpoint
                        /\ rows[k].percent = want[k].percent

\* C12: the report mem sends on a non-empty buffer gives the number of
\* samples, current = the newest entry, the mean, the max and the min of all
\* entries; a buffer of exactly 5 equal values v is reported "stable" with
\* current, avg, max and min all equal to v.
C12_ReportGivesMin ==
    MemReportSent =>
        LET h == MEMORY_HISTORY
            b == outbox[1].body
        IN  /\ b.minutes = Len(h)
            /\ b.current = 10 * h[Len(h)]
            /\ b.avg = Fmt1(SumSeq(h), Len(h))
            /\ b.peak = 10 * MaxSeq(h)
            /\ "min" \in DOMAIN b
            /\ b.min = 10 * MinSeq(h)
            /\ (Len(h) = 5 /\ \A k \in 1..5 : h[k] = h[1]) =>
                    /\ b.trend = TrendStable
                    /\ b.current = 10 * h[1] /\ b.avg = 10 * h[1]
                    /\ b.peak = 10 * h[1] /\ b.min = 10 * h[1]

Directional == {TrendMarkedUp, TrendSlowUp, TrendMarkedDown, TrendSlowDown}

\* C13: on a buffer of exactly 5 samples the report's trend is "stable"
\* whatever the 5 values are, and a report whose trend is an increase or a
\* decrease bucket comes from a buffer of at least 6 samples.
C13_FiveSamplesAreStable ==
    MemReportSent =>
        /\ Len(MEMORY_HISTORY) = 5 => outbox[1].body.trend = TrendStable
        /\ outbox[1].body.trend \in Directional => Len(MEMORY_HISTORY) >= 6

\* a strictly rising buffer of 5 samples, 51 MB apart end to end, reported
\* "stable"
C13_Witness ==
    /\ MemReportSent
    /\ MEMORY_HISTORY = <<100, 110, 111, 150, 151>>
    /\ outbox[1].body.trend = TrendStable

====
